---- MODULE Spec2Model ----
(***************************************************************************)
(* Model of src/streamlit_app.py: the timing-and-acquisition core          *)
(* (APIBookingCore, wait_until, start_pre_process) together with the       *)
(* Streamlit callbacks that start and stop it (run_booking, stop_booking,  *)
(* check_queue_and_rerun).                                                 *)
(*                                                                         *)
(* The operator starts a run and may start a second one once the first is  *)
(* marked as not running.  The threads of the first run are modelled       *)
(* statement by statement.  Of the second run the model keeps what it      *)
(* shares with the first: run_booking clears the Event and empties the     *)
(* Queue, and the exit of its start_pre_process thread sets the Event.     *)
(*                                                                         *)
(* Strings that the code inspects character by character (times) are       *)
(* sequences of one-character strings; the other strings are TLA+ strings. *)
(* The clock of the concurrent model counts ticks of 30 seconds.           *)
(***************************************************************************)
EXTENDS Integers, Sequences, FiniteSets, TLC

-----------------------------------------------------------------------------
(* Bounds of the model *)

\* the last clock tick: the clock stops advancing there
MaxClock == 4

\* the run instant (in ticks) the operator enters: late enough for a full
\* keep-alive interval before it, and one tick before the end of the clock
\* so that a corrected target after it can still be reached
RunTimes == {MaxClock - 1}

\* the longest slot sequence given to a function examined on its own
MaxSlots == 3

\* server clock minus local clock, in ticks, as the Date header reports it
Offsets == {-1, 0, 1}

-----------------------------------------------------------------------------
(* Program constants *)

\* sync_check_time = run_dt_kst - 30 s : one tick
SYNC_LEAD == 1

\* interval_seconds = 60.0 : two ticks
interval_seconds == 2

\* get_server_time_offset: max_retries = 5
PROBE_MAX_RETRIES == 5

\* _fetch_tee_list(..., max_retries=2)
FETCH_MAX_RETRIES == 2

\* try_reservation: max_retries = 2
RESERVE_MAX_RETRIES == 2

\* run_api_booking: sorted_available_times[:5]
TOP_N == 5

-----------------------------------------------------------------------------
(* Character strings *)

Digits == {"0", "1", "2", "3", "4", "5", "6", "7", "8", "9"}

\* code points of the characters the model uses (Python compares strings by
\* code point)
CharOrd(c) ==
    CASE c = " " -> 32
      [] c = "0" -> 48 [] c = "1" -> 49 [] c = "2" -> 50 [] c = "3" -> 51
      [] c = "4" -> 52 [] c = "5" -> 53 [] c = "6" -> 54 [] c = "7" -> 55
      [] c = "8" -> 56 [] c = "9" -> 57 [] c = ":" -> 58
      [] c = "A" -> 65 [] c = "B" -> 66 [] c = "C" -> 67 [] c = "D" -> 68
      [] c = "E" -> 69 [] c = "N" -> 78
      [] c = "e" -> 101 [] c = "n" -> 110 [] c = "o" -> 111 [] c = "x" -> 120

\* s < t for Python strings (lexicographic by code point)
RECURSIVE StrLt(_, _)
StrLt(s, t) ==
    IF t = <<>> THEN FALSE
    ELSE IF s = <<>> THEN TRUE
    ELSE IF Head(s) = Head(t) THEN StrLt(Tail(s), Tail(t))
    ELSE CharOrd(Head(s)) < CharOrd(Head(t))

StrLe(s, t) == s = t \/ StrLt(s, t)

\* str.replace(c, "")
RECURSIVE RemoveChar(_, _)
RemoveChar(s, c) ==
    IF s = <<>> THEN <<>>
    ELSE IF Head(s) = c THEN RemoveChar(Tail(s), c)
    ELSE <<Head(s)>> \o RemoveChar(Tail(s), c)

RECURSIVE LStrip(_)
LStrip(s) ==
    IF s # <<>> /\ Head(s) = " " THEN LStrip(Tail(s)) ELSE s

RECURSIVE RStrip(_)
RStrip(s) ==
    IF s # <<>> /\ s[Len(s)] = " " THEN RStrip(SubSeq(s, 1, Len(s) - 1)) ELSE s

\* str.strip()
Strip(s) == LStrip(RStrip(s))

IsDigits(s) == \A i \in DOMAIN s : s[i] \in Digits

\* str(None)
NoneStr == <<"N", "o", "n", "e">>

Mut_format_time_for_api(time_str) ==
    LET s == RemoveChar(Strip(time_str), ":")
    IN  IF Len(s) \in {3, 4} /\ IsDigits(s) THEN s
        ELSE <<"0", "0", "0", "0">>

\* format_time_for_api: HH:MM -> HHMM, 3 digits are zero-padded, anything
\* else is "0000"
format_time_for_api(time_str) ==
    LET s == RemoveChar(Strip(time_str), ":")
    IN  IF Len(s) = 4 /\ IsDigits(s) THEN s
        ELSE IF Len(s) = 3 /\ IsDigits(s) THEN <<"0">> \o s
        ELSE <<"0", "0", "0", "0">>

-----------------------------------------------------------------------------
(* Slots: getTeeList rows, deduplication, filter and sort *)

\* a key that a row of the response does not carry
Absent == "absent"

\* course_detail_mapping.get(bk_cos, 'Unknown'); the display names are
\* transliterated
course_detail_mapping(bk_cos) ==
    CASE bk_cos = "A" -> "YesulOUT"
      [] bk_cos = "B" -> "YesulIN"
      [] bk_cos = "C" -> "MunhwaOUT"
      [] bk_cos = "D" -> "MunhwaIN"
      [] OTHER -> "Unknown"

CO_DIV == "204"

\* one row of the response -> the 6-tuple
\* (bk_time, bk_cos, bk_part, course_nm, co_div, status_r)
RowToSlot(t) ==
    LET bk_time == format_time_for_api(IF t.BK_TIME = Absent THEN NoneStr ELSE t.BK_TIME)
        bk_cos == t.BK_COS
        bk_part == IF t.BK_PART = Absent
                   THEN (IF bk_cos \in {"A", "C"} THEN "1" ELSE "2")
                   ELSE t.BK_PART
        status_r == IF t.R = Absent THEN "N/A" ELSE t.R
    IN  <<bk_time, bk_cos, bk_part, course_detail_mapping(bk_cos), CO_DIV, status_r>>

\* `if bk_time and bk_cos`
RowUsable(t) ==
    /\ format_time_for_api(IF t.BK_TIME = Absent THEN NoneStr ELSE t.BK_TIME) # <<>>
    /\ t.BK_COS # Absent
    /\ t.BK_COS # ""

\* the loop over total_rows in _fetch_tee_list
RECURSIVE ParseRows(_)
ParseRows(rows) ==
    IF rows = <<>> THEN <<>>
    ELSE (IF RowUsable(Head(rows)) THEN <<RowToSlot(Head(rows))>> ELSE <<>>)
         \o ParseRows(Tail(rows))

\* time_key = (t[0], t[1], t[2])
TimeKey(t) == <<t[1], t[2], t[3]>>

\* a variant of Dedup: every slot is kept
MutDedup(times, seen) == times

\* unique_times_map: first occurrence of each key, in insertion order
RECURSIVE Dedup(_, _)
Dedup(times, seen) ==
    IF times = <<>> THEN <<>>
    ELSE IF TimeKey(Head(times)) \in seen THEN Dedup(Tail(times), seen)
    ELSE <<Head(times)>> \o Dedup(Tail(times), seen \cup {TimeKey(Head(times))})

\* course_map.get(name, [name])
CourseCodes(name) ==
    CASE name = "All" -> {"A", "B", "C", "D"}
      [] name = "Yesul" -> {"A", "B"}
      [] name = "Munhwa" -> {"C", "D"}
      [] OTHER -> {name}

TargetCourseCodes(target_course_names) ==
    UNION {CourseCodes(target_course_names[i]) : i \in DOMAIN target_course_names}

\* a variant of KeepSlot: the status is not looked at
MutKeepSlot(t, start_time_api, end_time_api, target_course_names) ==
    /\ StrLe(start_time_api, t[1])
    /\ StrLe(t[1], end_time_api)
    /\ \/ \E i \in DOMAIN target_course_names : target_course_names[i] = "All"
       \/ t[2] \in TargetCourseCodes(target_course_names)

\* the three nested conditions of the filter loop
KeepSlot(t, start_time_api, end_time_api, target_course_names) ==
    /\ StrLe(start_time_api, t[1])
    /\ StrLe(t[1], end_time_api)
    /\ \/ \E i \in DOMAIN target_course_names : target_course_names[i] = "All"
       \/ t[2] \in TargetCourseCodes(target_course_names)
    /\ t[6] = "OK"

RECURSIVE FilterTimes(_, _, _, _)
FilterTimes(all_times, start_time_api, end_time_api, target_course_names) ==
    IF all_times = <<>> THEN <<>>
    ELSE (IF KeepSlot(Head(all_times), start_time_api, end_time_api, target_course_names)
          THEN <<Head(all_times)>> ELSE <<>>)
         \o FilterTimes(Tail(all_times), start_time_api, end_time_api, target_course_names)

\* key=lambda x: (x[0], x[1]) : tuple comparison, course codes are one
\* character long
KeyLt(a, b) ==
    \/ StrLt(a[1], b[1])
    \/ a[1] = b[1] /\ StrLt(<<a[2]>>, <<b[2]>>)

\* a variant of Before: the direction is ignored
MutBefore(x, y, is_reverse) == KeyLt(x, y)

\* x goes before y in the sorted list when its key is strictly smaller
\* (ascending) or strictly greater (reverse=True)
Before(x, y, is_reverse) == IF is_reverse THEN KeyLt(y, x) ELSE KeyLt(x, y)

\* a variant of InsertSorted: x is placed before the elements with an equal
\* key (a sort that is not stable)
RECURSIVE MutInsertSorted(_, _, _)
MutInsertSorted(x, sorted, is_reverse) ==
    IF sorted = <<>> THEN <<x>>
    ELSE IF ~Before(Head(sorted), x, is_reverse) THEN <<x>> \o sorted
    ELSE <<Head(sorted)>> \o MutInsertSorted(x, Tail(sorted), is_reverse)

\* stable insertion: x is placed after every element that does not have to
\* follow it, so equal keys keep their order (list.sort is stable, also with
\* reverse=True)
RECURSIVE InsertSorted(_, _, _)
InsertSorted(x, sorted, is_reverse) ==
    IF sorted = <<>> THEN <<x>>
    ELSE IF Before(x, Head(sorted), is_reverse) THEN <<x>> \o sorted
    ELSE <<Head(sorted)>> \o InsertSorted(x, Tail(sorted), is_reverse)

RECURSIVE SortTimes(_, _)
SortTimes(times, is_reverse) ==
    IF times = <<>> THEN <<>>
    ELSE InsertSorted(times[Len(times)],
                      SortTimes(SubSeq(times, 1, Len(times) - 1), is_reverse),
                      is_reverse)

filter_and_sort_times(all_times, start_time_str, end_time_str, target_course_names, is_reverse) ==
    SortTimes(FilterTimes(all_times,
                          format_time_for_api(start_time_str),
                          format_time_for_api(end_time_str),
                          target_course_names),
              is_reverse)

-----------------------------------------------------------------------------
(* What the server can answer (the environment of the concurrent model) *)

Row(bk_time, bk_cos, bk_part, r) ==
    [BK_TIME |-> bk_time, BK_COS |-> bk_cos, BK_PART |-> bk_part, R |-> r]

\* the rows of a getTeeList response: none; a duplicated slot and a second
\* one; seven distinct slots of which six are bookable inside the default
\* window; slots that are all unusable (not bookable, outside the window)
RowsNone == <<>>

RowsDup ==
    << Row(<<"0", "7", "0", "0">>, "A", "1", "OK"),
       Row(<<"0", "7", "0", "0">>, "A", "1", "OK"),
       Row(<<"0", "7", ":", "3", "0">>, "C", Absent, "OK") >>

RowsMany ==
    << Row(<<"0", "7", "0", "0">>, "A", "1", "OK"),
       Row(<<"7", "1", "0">>, "B", "2", "OK"),
       Row(<<"0", "7", "3", "0">>, "C", "1", "OK"),
       Row(<<"0", "7", "3", "0">>, "A", "1", "X"),
       Row(<<"0", "8", "0", "0">>, "D", "2", "OK"),
       Row(<<"0", "8", "3", "0">>, "A", "1", "OK"),
       Row(<<"0", "9", "0", "0">>, "B", Absent, "OK") >>

RowsUnusable ==
    << Row(<<"0", "7", "0", "0">>, "A", "1", "X"),
       Row(<<"1", "0", "0", "0">>, "B", "2", "OK"),
       Row(Absent, "C", "1", "OK"),
       Row(<<"0", "8", "0", "0">>, "D", "2", Absent) >>

TeeListRows == {RowsNone, RowsDup, RowsMany, RowsUnusable}

\* getTeeList: a body with rows, a body with a resultCode other than
\* '0000' (with or without rows), a body that is no JSON, a requests.RequestException, any other
\* exception
TeeListResponses ==
    {[kind |-> "rows", rows |-> rs] : rs \in TeeListRows}
    \cup {[kind |-> "api_error", rows |-> rs] : rs \in {RowsNone, RowsMany}}
    \cup {[kind |-> k, rows |-> <<>>] : k \in {"bad_json", "net_error", "other_exc"}}

\* doLogin: marker present, marker missing, RequestException, the hash of
\* the password fails
LoginOutcomes == {"success", "rejected", "network", "hash"}

\* what the steps of requests_login meet: the hash of the password works
\* or raises; each GET and POST is answered with a good status, with an
\* error status, or raises a RequestException; the body of the doLogin
\* answer holds the marker "resultCode":"0000" or does not
LoginResponses ==
    [hash : {"ok", "raises"},
     login_page : {"ok", "http_error", "net_error"},
     index_page : {"ok", "http_error", "net_error"},
     doLogin : {"marker", "no_marker", "http_error", "net_error"},
     sessionConfirm : {"ok", "http_error", "net_error"}]

NoLogin ==
    [hash |-> "ok", login_page |-> "ok", index_page |-> "ok", doLogin |-> "marker",
     sessionConfirm |-> "ok"]

Mut_requests_login(self_member_id, usrid, resp) ==
    IF resp.sessionConfirm = "net_error" \/ resp.doLogin # "marker"
    THEN [result |-> "fail", outcome |-> "network", member_id |-> self_member_id,
          requests |-> <<"login_page", "index_page", "doLogin", "sessionConfirm">>]
    ELSE [result |-> "success", outcome |-> "success", member_id |-> usrid,
          requests |-> <<"login_page", "index_page", "doLogin", "sessionConfirm">>]

\* requests_login: the 'result' it returns, which of its failure branches
\* it took, self.member_id when it returns, and the requests it sent.  The
\* GET of the index page is skipped when the GET of the login page raises;
\* only the doLogin answer passes raise_for_status().
requests_login(self_member_id, usrid, resp) ==
    LET bootstrap == IF resp.login_page = "net_error" THEN <<"login_page">>
                     ELSE <<"login_page", "index_page">>
    IN  IF resp.hash = "raises"
        THEN [result |-> "fail", outcome |-> "hash", member_id |-> self_member_id,
              requests |-> <<>>]
        ELSE IF resp.doLogin \in {"http_error", "net_error"}
        THEN [result |-> "fail", outcome |-> "network", member_id |-> self_member_id,
              requests |-> bootstrap \o <<"doLogin">>]
        ELSE IF resp.doLogin = "no_marker"
        THEN [result |-> "fail", outcome |-> "rejected", member_id |-> self_member_id,
              requests |-> bootstrap \o <<"doLogin">>]
        ELSE [result |-> "success", outcome |-> "success", member_id |-> usrid,
              requests |-> bootstrap \o <<"doLogin", "sessionConfirm">>]

\* the GET of get_server_time_offset: a Date header (the server's clock at
\* local_time_kst), no Date header, a RequestException, any other exception
ProbeResponses(local_time_kst) ==
    {[kind |-> "date", Date |-> local_time_kst + o] : o \in Offsets}
    \cup {[kind |-> k, Date |-> 0] : k \in {"no_date", "net_error", "other_exc"}}

\* time_difference = (server_time_kst - local_time_kst).total_seconds()
time_difference(server_time_kst, local_time_kst) == server_time_kst - local_time_kst

\* getCalendar: a body that parses, a body that is no JSON, a
\* requests.RequestException (an HTTP error status included), any other
\* exception
CalendarResponses == {"ok", "bad_json", "net_error", "other_exc"}

\* the three fields of a doReservation body that try_reservation reads:
\* missing, the success value, another value
ReservationBodies ==
    [resultCode : {Absent, "0000", "9999"},
     R : {Absent, "OK", "X"},
     status : {Absent, "success", "fail"}]

NoBody == [resultCode |-> Absent, R |-> Absent, status |-> Absent]

\* doReservation: a JSON object, a body that is no JSON, a timeout, another
\* RequestException, any other exception
ReservationResponses ==
    {[kind |-> "json", data |-> d] : d \in ReservationBodies}
    \cup {[kind |-> k, data |-> NoBody] :
             k \in {"bad_json", "timeout", "net_error", "other_exc"}}

-----------------------------------------------------------------------------
(* State *)

VARIABLES
    now,             \* datetime.datetime.now(KST), in ticks
    stop_event,      \* st.session_state.stop_event (one Event for all runs)
    message_queue,   \* st.session_state.message_queue (one Queue for all runs)
    is_running,      \* st.session_state.is_running
    run_id,          \* st.session_state.run_id (0 is None)
    booking_thread,  \* st.session_state.booking_thread (0 is None, else 1 or 2)
    inputs,          \* the inputs record the first run was started with
    opc,             \* where the start_pre_process thread of the first run is
    member_id,       \* core.member_id
    target_local,    \* target_local_time_kst
    time_offset,     \* time_offset of start_pre_process
    attempt,         \* the `attempt` of the retry loop the thread is in
    sorted_times,    \* sorted_times
    cand,            \* 1 + the `i` of run_api_booking's loop
    result,          \* how the first run ended
    sent,            \* the entries the first run has put on the queue, in order
    tried,           \* the calls of try_reservation by the live thread, in
                     \* order: the index of the candidate in sorted_times
                     \* and what the call returned
    nposts,          \* the doReservation requests the live thread has sent
    kpc,             \* where the keep_session_alive thread of the first run is
    target_dt,       \* target_dt of the live keeper
    kstart,          \* start_wait of the live keeper
    klast,           \* the outcome of the live keeper's last GET
    next_opc,        \* the start_pre_process thread of the second run:
                     \* "idle" (not started), "alive", "done"
    calendar_primed, \* calendar_primed (FALSE outside lines 709-713)
    last_resp,       \* what the request of the thread's last step was answered
                     \* with ("none": the last step sent no request)
    call,            \* a function of the core examined on its own: its name
                     \* and its arguments
    ret,             \* what the successive applications of it returned
    wait,            \* a call of wait_until examined on its own, with the
                     \* clock in milliseconds: its arguments, its locals,
                     \* where it is, and what it has logged
    reserved         \* the candidates (indices of sorted_times) the server
                     \* holds a reservation for; followed in ServedSpec only

prog_vars == <<now, stop_event, message_queue, is_running, run_id, booking_thread,
               inputs, opc, member_id, target_local, time_offset, attempt, sorted_times, cand,
               result, sent, tried, nposts, kpc, target_dt, kstart, klast, next_opc,
               last_resp, calendar_primed>>

fn_vars == <<call, ret, wait, reserved>>

vars == <<prog_vars, fn_vars>>

ui_vars == <<is_running, run_id, booking_thread, inputs, next_opc>>

orch_vars == <<opc, member_id, target_local, time_offset, attempt, sorted_times, cand,
               result, sent, tried, nposts, last_resp, calendar_primed>>

keeper_vars == <<kpc, target_dt, kstart, klast>>

\* the inputs dictionary run_booking prepares; the window, the course and
\* the order are the defaults of the form
Inputs(test_mode, run_dt) ==
    [id |-> "user", test_mode |-> test_mode, run_dt |-> run_dt,
     start_time |-> <<"0", "7", ":", "0", "0">>,
     end_time |-> <<"0", "9", ":", "0", "0">>,
     target_course |-> <<"Yesul", "Munhwa">>,
     reverse_order |-> TRUE]

NoInputs == Inputs(Absent, 0)

ProgramInit ==
    /\ now = 0
    /\ stop_event = FALSE
    /\ message_queue = <<>>
    /\ is_running = FALSE
    /\ run_id = 0
    /\ booking_thread = 0
    /\ inputs = NoInputs
    /\ opc = "idle"
    /\ member_id = "None"
    /\ target_local = 0
    /\ time_offset = 0
    /\ attempt = 0
    /\ sorted_times = <<>>
    /\ cand = 0
    /\ result = "none"
    /\ sent = <<>>
    /\ tried = <<>>
    /\ nposts = 0
    /\ kpc = "idle"
    /\ target_dt = 0
    /\ kstart = 0
    /\ klast = "none"
    /\ next_opc = "idle"
    /\ last_resp = "none"
    /\ calendar_primed = FALSE

\* no function is examined on its own while the program runs
NoCall ==
    [fn |-> "none", all_times |-> <<>>, window |-> <<>>, target_course |-> <<>>,
     is_reverse |-> FALSE, data |-> NoBody, attempt |-> 0, time_str |-> <<>>,
     usrid |-> "", login |-> NoLogin]

\* no call of wait_until is examined on its own while the program runs
NoWait ==
    [pc |-> "none", now_kst |-> 0, target_dt_kst |-> 0, stop_event |-> FALSE,
     log_countdown |-> FALSE, last_remaining_sec |-> -1, slept |-> FALSE,
     stalls |-> 0, lines |-> <<>>]

Init ==
    /\ ProgramInit
    /\ call = NoCall
    /\ ret = <<>>
    /\ wait = NoWait
    /\ reserved = {}

\* threading.Thread.is_alive() of the first run's thread, of its keeper and
\* of st.session_state.booking_thread
is_alive == opc \notin {"idle", "done"}

keeper_alive == kpc \notin {"idle", "done"}

booking_thread_is_alive ==
    IF booking_thread = 1 THEN is_alive ELSE next_opc = "alive"

-----------------------------------------------------------------------------
(* The log sink *)

\* str.startswith
startswith(message, prefix) == message # <<>> /\ Head(message) = prefix

\* log_message(message, message_queue): the entry is "UI_LOG:[timestamp] "
\* followed by the message
log_message(message) == <<"UI_LOG:">> \o message

\* message_queue.put(entry) by the first run
Put(entry) ==
    /\ message_queue' = Append(message_queue, entry)
    /\ sent' = (Append(sent, entry))

\* the entries of the first run that check_queue_and_rerun treats as an alert
Alerts == {i \in DOMAIN sent : startswith(sent[i], "UI_ERROR:")}

-----------------------------------------------------------------------------
(* start_pre_process: the exits *)

\* a `return` inside the try block: control goes to the finally block
Return(how) ==
    /\ result' = how
    /\ opc' = "finally"

\* `if success:` ... `else:` after run_api_booking returned
BookingEnds(success) ==
    IF success
    THEN /\ Return("success")
         /\ UNCHANGED <<message_queue, sent>>
    ELSE /\ Return("failed")
         /\ Put(<<"UI_ERROR:", "booking failed">>)

\* a variant of ExceptHandler: the exception is logged only
MutExceptHandler ==
    /\ Return("exception")
    /\ Put(log_message(<<"fatal error">>))

\* `except Exception as e:` : the traceback is logged and the alert is put
ExceptHandler ==
    /\ Return("exception")
    /\ Put(<<"UI_ERROR:", "fatal error">>)

\* the stages inside the try block
TryStages ==
    {"login", "launch", "wait_sync", "sync_check", "probe", "prime",
     "prime_check", "wait_final", "final_check", "fetch", "fetch_req", "delay", "book",
     "cand", "try_req", "try_retry"}

\* a statement of the try block raises: the handler runs at once
Raise ==
    /\ opc \in TryStages
    /\ ExceptHandler
    /\ UNCHANGED <<now, stop_event, ui_vars, member_id, target_local, time_offset, attempt,
                   sorted_times, cand, tried, nposts, keeper_vars>>
    /\ last_resp' = "none"
    /\ UNCHANGED calendar_primed

\* a variant of FinallyBlock: the signal is left as it is
MutFinallyBlock ==
    /\ UNCHANGED stop_event
    /\ opc' = "done"

\* `finally:` stop_event.set()
FinallyBlock ==
    /\ stop_event' = TRUE
    /\ opc' = "done"

\* the thread function returns: its local variables are gone, and so is
\* the record of the calls it made
Finally ==
    /\ opc = "finally"
    /\ FinallyBlock
    /\ target_local' = 0
    /\ time_offset' = 0
    /\ attempt' = 0
    /\ sorted_times' = <<>>
    /\ cand' = 0
    /\ tried' = <<>>
    /\ nposts' = 0
    /\ UNCHANGED <<now, message_queue, ui_vars, member_id, result, sent, keeper_vars>>
    /\ last_resp' = "none"
    /\ UNCHANGED calendar_primed

-----------------------------------------------------------------------------
(* start_pre_process: login, keeper launch, the two waits *)

\* requests_login fails: self.log_message("UI_ERROR:...") and the return of
\* {'result': 'fail'}; start_pre_process returns
LoginFails(login_result) ==
    /\ Put(log_message(<<"UI_ERROR:", login_result.outcome>>))
    /\ Return("login_failed")
    /\ member_id' = login_result.member_id

\* a variant of LoginSucceeds: the id of the member is not kept
MutLoginSucceeds(login_result) ==
    /\ member_id' = "None"
    /\ opc' = "launch"
    /\ UNCHANGED <<message_queue, sent, result>>

LoginSucceeds(login_result) ==
    /\ member_id' = login_result.member_id
    /\ opc' = "launch"
    /\ UNCHANGED <<message_queue, sent, result>>

Login ==
    /\ opc = "login"
    /\ \E resp \in LoginResponses :
          LET login_result == requests_login(member_id, inputs.id, resp)
          IN  IF login_result.result = "success"
              THEN LoginSucceeds(login_result) ELSE LoginFails(login_result)
    /\ UNCHANGED <<now, stop_event, ui_vars, target_local, time_offset, attempt, sorted_times,
                   cand, tried, nposts, keeper_vars>>
    /\ last_resp' = "none"
    /\ UNCHANGED calendar_primed

\* the keeper thread is started with run_dt_kst, then
\* `if now_kst < sync_check_time: wait_until(sync_check_time, ...)`
Launch ==
    /\ opc = "launch"
    /\ kpc' = "loop"
    /\ target_dt' = inputs.run_dt
    /\ opc' = (IF now < inputs.run_dt - SYNC_LEAD THEN "wait_sync" ELSE "sync_check")
    /\ UNCHANGED <<now, stop_event, message_queue, ui_vars, member_id, target_local, time_offset,
                   attempt, sorted_times, cand, result, sent, tried, nposts,
                   kstart, klast>>
    /\ last_resp' = "none"
    /\ UNCHANGED calendar_primed

\* a variant of wait_until_exits: the loop ends at the signal only
Mut_wait_until_exits(target_dt_kst) == stop_event

\* wait_until leaves its loop: the signal is set, or the remaining time is
\* at most 1 ms (not positive, on a clock of ticks)
wait_until_exits(target_dt_kst) == stop_event \/ target_dt_kst - now <= 0

WaitSync ==
    /\ opc = "wait_sync"
    /\ wait_until_exits(inputs.run_dt - SYNC_LEAD)
    /\ opc' = "sync_check"
    /\ UNCHANGED <<now, stop_event, message_queue, ui_vars, member_id, target_local, time_offset,
                   attempt, sorted_times, cand, result, sent, tried, nposts,
                   keeper_vars>>
    /\ last_resp' = "none"
    /\ UNCHANGED calendar_primed

\* `if not stop_event.is_set():` get_server_time_offset() `else: return`
SyncCheck ==
    /\ opc = "sync_check"
    /\ IF stop_event
       THEN Return("cancelled") /\ UNCHANGED attempt
       ELSE /\ opc' = "probe"
            /\ attempt' = 0
            /\ UNCHANGED result
    /\ UNCHANGED <<now, stop_event, message_queue, ui_vars, member_id, target_local, time_offset,
                   sorted_times, cand, sent, tried, nposts, keeper_vars>>
    /\ last_resp' = "none"
    /\ UNCHANGED calendar_primed

\* get_server_time_offset returns time_offset; then
\* target_local_time_kst = run_dt_kst - timedelta(seconds=time_offset)
MutOffsetKnown(offset) ==
    /\ time_offset' = offset
    /\ target_local' = (inputs.run_dt + offset)
    /\ opc' = "prime"
    /\ UNCHANGED attempt

OffsetKnown(offset) ==
    /\ time_offset' = offset
    /\ target_local' = (inputs.run_dt - offset)
    /\ opc' = "prime"
    /\ UNCHANGED attempt

\* a variant of ProbeIteration: when the probes are used up the last known
\* correction of one tick is applied
MutProbeIteration(resp) ==
    CASE resp.kind = "date" -> OffsetKnown(time_difference(resp.Date, now))
      [] resp.kind = "other_exc" -> OffsetKnown(0)
      [] OTHER ->
           IF attempt + 1 < PROBE_MAX_RETRIES
           THEN /\ attempt' = (attempt + 1)
                /\ UNCHANGED <<target_local, time_offset, opc>>
           ELSE OffsetKnown(1)

\* one iteration of `for attempt in range(max_retries)`; the loop does not
\* read stop_event
ProbeIteration(resp) ==
    CASE resp.kind = "date" -> OffsetKnown(time_difference(resp.Date, now))
      [] resp.kind = "other_exc" -> OffsetKnown(0)
      [] OTHER ->
           IF attempt + 1 < PROBE_MAX_RETRIES
           THEN /\ attempt' = (attempt + 1)
                /\ UNCHANGED <<target_local, time_offset, opc>>
           ELSE OffsetKnown(0)

Probe ==
    /\ opc = "probe"
    /\ \E resp \in ProbeResponses(now) : ProbeIteration(resp) /\ last_resp' = resp.kind
    /\ UNCHANGED calendar_primed
    /\ UNCHANGED <<now, stop_event, message_queue, ui_vars, member_id,
                   sorted_times, cand, result, sent, tried, nposts, keeper_vars>>

\* a variant of prime_calendar: a body that is no JSON counts as loaded
Mut_prime_calendar(resp) == resp \in {"ok", "bad_json"}

\* prime_calendar: True when the POST succeeded and the body parses as JSON;
\* json.JSONDecodeError, requests.RequestException (raise_for_status
\* included) and any other exception return False
prime_calendar(resp) ==
    CASE resp = "ok" -> TRUE
      [] resp = "bad_json" -> FALSE
      [] resp = "net_error" -> FALSE
      [] resp = "other_exc" -> FALSE

\* `calendar_primed = core.prime_calendar(...)`: one POST, no retry, nothing
\* raised
Prime ==
    /\ opc = "prime"
    /\ \E resp \in CalendarResponses :
          /\ last_resp' = resp
          /\ calendar_primed' = prime_calendar(resp)
    /\ opc' = "prime_check"
    /\ UNCHANGED <<now, stop_event, message_queue, ui_vars, member_id, target_local, time_offset,
                   attempt, sorted_times, cand, result, sent, tried, nposts,
                   keeper_vars>>

\* a variant of PrimeContinues: a calendar that did not load ends the run
MutPrimeContinues ==
    IF stop_event \/ ~calendar_primed
    THEN Return("cancelled")
    ELSE /\ opc' = (IF now < target_local THEN "wait_final" ELSE "final_check")
         /\ UNCHANGED result

\* `if not calendar_primed:` (both branches only log), `if
\* stop_event.is_set(): return`, then `if now_kst < target_local_time_kst:
\* wait_until(...)`
PrimeContinues ==
    IF stop_event
    THEN Return("cancelled")
    ELSE /\ opc' = (IF now < target_local THEN "wait_final" ELSE "final_check")
         /\ UNCHANGED result

PrimeCheck ==
    /\ opc = "prime_check"
    /\ PrimeContinues
    /\ calendar_primed' = FALSE
    /\ last_resp' = "none"
    /\ UNCHANGED <<now, stop_event, message_queue, ui_vars, member_id, target_local, time_offset,
                   attempt, sorted_times, cand, sent, tried, nposts, keeper_vars>>

WaitFinal ==
    /\ opc = "wait_final"
    /\ wait_until_exits(target_local)
    /\ opc' = "final_check"
    /\ UNCHANGED <<now, stop_event, message_queue, ui_vars, member_id, target_local, time_offset,
                   attempt, sorted_times, cand, result, sent, tried, nposts,
                   keeper_vars>>
    /\ last_resp' = "none"
    /\ UNCHANGED calendar_primed

\* `if stop_event.is_set(): ... return`, else get_all_available_times
FinalCheck ==
    /\ opc = "final_check"
    /\ IF stop_event
       THEN Return("cancelled") /\ UNCHANGED attempt
       ELSE /\ opc' = "fetch"
            /\ attempt' = 0
            /\ UNCHANGED result
    /\ UNCHANGED <<now, stop_event, message_queue, ui_vars, member_id, target_local, time_offset,
                   sorted_times, cand, sent, tried, nposts, keeper_vars>>
    /\ last_resp' = "none"
    /\ UNCHANGED calendar_primed

-----------------------------------------------------------------------------
(* start_pre_process: fetch, filter and sort, delay *)

\* get_all_available_times returns the deduplicated slots; then `if
\* stop_event.is_set(): return`, then filter_and_sort_times
AfterFetch(fetched) ==
    IF stop_event
    THEN Return("cancelled") /\ UNCHANGED sorted_times
    ELSE /\ sorted_times' = (filter_and_sort_times(Dedup(fetched, {}),
                                      inputs.start_time, inputs.end_time,
                                      inputs.target_course, inputs.reverse_order))
         /\ opc' = "delay"
         /\ UNCHANGED result

\* _fetch_tee_list, the head of `for attempt in range(max_retries)`:
\* `if self.stop_event.is_set(): return []`
FetchHead ==
    /\ opc = "fetch"
    /\ IF stop_event
       THEN AfterFetch(<<>>)
       ELSE /\ opc' = "fetch_req"
            /\ UNCHANGED <<result, sorted_times>>
    /\ UNCHANGED <<now, stop_event, message_queue, ui_vars, member_id, target_local, time_offset,
                   attempt, cand, sent, tried, nposts, keeper_vars>>
    /\ last_resp' = "none"
    /\ UNCHANGED calendar_primed

\* a variant of FetchIteration: a resultCode other than '0000' is retried
\* like a network error
MutFetchIteration(resp) ==
    CASE resp.kind = "rows" -> AfterFetch(ParseRows(resp.rows)) /\ UNCHANGED attempt
      [] resp.kind = "other_exc" -> AfterFetch(<<>>) /\ UNCHANGED attempt
      [] OTHER ->
           IF attempt + 1 < FETCH_MAX_RETRIES
           THEN /\ attempt' = (attempt + 1)
                /\ opc' = "fetch"
                /\ UNCHANGED <<result, sorted_times>>
           ELSE AfterFetch(<<>>) /\ UNCHANGED attempt

\* the POST of one iteration and what the iteration does with the answer:
\* the rows are parsed, a resultCode other than '0000' returns [] whatever
\* else the body holds, an unexpected exception leaves the loop, a body that
\* is no JSON or a RequestException goes to the next iteration
FetchIteration(resp) ==
    CASE resp.kind = "rows" -> AfterFetch(ParseRows(resp.rows)) /\ UNCHANGED attempt
      [] resp.kind \in {"api_error", "other_exc"} -> AfterFetch(<<>>) /\ UNCHANGED attempt
      [] OTHER ->
           IF attempt + 1 < FETCH_MAX_RETRIES
           THEN /\ attempt' = (attempt + 1)
                /\ opc' = "fetch"
                /\ UNCHANGED <<result, sorted_times>>
           ELSE AfterFetch(<<>>) /\ UNCHANGED attempt

FetchReq ==
    /\ opc = "fetch_req"
    /\ \E resp \in TeeListResponses : FetchIteration(resp) /\ last_resp' = resp.kind
    /\ UNCHANGED calendar_primed
    /\ UNCHANGED <<now, stop_event, message_queue, ui_vars, member_id, target_local, time_offset,
                   cand, sent, tried, nposts, keeper_vars>>

\* time.sleep(delay_seconds), then `if stop_event.is_set(): return`
Delay ==
    /\ opc = "delay"
    /\ IF stop_event
       THEN Return("cancelled")
       ELSE opc' = "book" /\ UNCHANGED result
    /\ UNCHANGED <<now, stop_event, message_queue, ui_vars, member_id, target_local, time_offset,
                   attempt, sorted_times, cand, sent, tried, nposts, keeper_vars>>
    /\ last_resp' = "none"
    /\ UNCHANGED calendar_primed

-----------------------------------------------------------------------------
(* run_api_booking and try_reservation *)

\* a variant of test_mode: a missing key means a real booking
Mut_test_mode == IF inputs.test_mode = Absent THEN "False" ELSE inputs.test_mode

\* inputs.get('test_mode', True)
test_mode == IF inputs.test_mode = Absent THEN "True" ELSE inputs.test_mode

Min(a, b) == IF a < b THEN a ELSE b

\* a variant of TopCandidates: the list is not truncated
MutTopCandidates(sorted_available_times) == sorted_available_times

\* sorted_available_times[:5]
TopCandidates(sorted_available_times) ==
    SubSeq(sorted_available_times, 1, Min(TOP_N, Len(sorted_available_times)))

\* run_api_booking up to the loop: the empty list returns False before
\* test_mode is looked at; test mode returns True
RunApiBooking ==
    IF sorted_times = <<>>
    THEN BookingEnds(FALSE) /\ UNCHANGED cand
    ELSE IF test_mode = "True"
    THEN BookingEnds(TRUE) /\ UNCHANGED cand
    ELSE /\ cand' = 1
         /\ opc' = "cand"
         /\ UNCHANGED <<result, message_queue, sent>>

Book ==
    /\ opc = "book"
    /\ RunApiBooking
    /\ UNCHANGED <<now, stop_event, ui_vars, member_id, target_local, time_offset, attempt,
                   sorted_times, tried, nposts, keeper_vars>>
    /\ last_resp' = "none"
    /\ UNCHANGED calendar_primed

\* the head of `for i, time_info in enumerate(sorted_available_times[:5])`:
\* the list is exhausted or the signal is set (`break`): success is False;
\* otherwise try_reservation is called and passes its own first check of the
\* signal
CandidateLoop ==
    IF cand > Len(TopCandidates(sorted_times)) \/ stop_event
    THEN BookingEnds(FALSE) /\ UNCHANGED <<tried, attempt>>
    ELSE /\ tried' = Append(tried, [cand |-> cand, ok |-> "pending"])
         /\ attempt' = 0
         /\ opc' = "try_req"
         /\ UNCHANGED <<result, message_queue, sent>>

Cand ==
    /\ opc = "cand"
    /\ CandidateLoop
    /\ UNCHANGED <<now, stop_event, ui_vars, member_id, target_local, time_offset, sorted_times,
                   cand, nposts, keeper_vars>>
    /\ last_resp' = "none"
    /\ UNCHANGED calendar_primed

\* the fields of try_reservation's payload that do not depend on the slot
payload == [method |-> "doReservation", coDiv |-> CO_DIV, member_id |-> member_id]

\* try_reservation returns ok to run_api_booking
TryReturns(ok) == tried' = [tried EXCEPT ![Len(tried)].ok = ok]

\* a variant of NextCandidate: after a failed candidate the slots are
\* fetched again
MutNextCandidate ==
    /\ TryReturns("False")
    /\ cand' = (cand + 1)
    /\ opc' = "fetch"
    /\ UNCHANGED <<result, message_queue, sent>>

\* try_reservation returned False: the loop goes to the next candidate
NextCandidate ==
    /\ TryReturns("False")
    /\ cand' = (cand + 1)
    /\ opc' = "cand"
    /\ UNCHANGED <<result, message_queue, sent>>

\* a variant of HasSuccessMarker: only the result code is looked at
MutHasSuccessMarker(data) == data.resultCode = "0000"

\* data.get('resultCode') == '0000' or data.get('R') == 'OK' or
\* data.get('status') == 'success'
HasSuccessMarker(data) ==
    \/ data.resultCode = "0000"
    \/ data.R = "OK"
    \/ data.status = "success"

\* a variant of TryOutcome: a rejection is retried like a network error
MutTryOutcome(resp, attempt_no) ==
    CASE resp.kind = "json" /\ HasSuccessMarker(resp.data) -> "True"
      [] resp.kind = "other_exc" -> "False"
      [] OTHER -> IF attempt_no < RESERVE_MAX_RETRIES - 1 THEN "continue" ELSE "False"

\* one iteration of try_reservation's loop after the POST: `return True`,
\* `return False` or `continue`. res.json() raises requests' JSONDecodeError,
\* which is a RequestException and not the JSONDecodeError of ujson the
\* inner handler names: a body that is no JSON takes the network branch
TryOutcome(resp, attempt_no) ==
    CASE resp.kind = "json" ->
           IF HasSuccessMarker(resp.data) THEN "True" ELSE "False"
      [] resp.kind = "other_exc" -> "False"
      [] resp.kind \in {"bad_json", "timeout", "net_error"} ->
           IF attempt_no < RESERVE_MAX_RETRIES - 1 THEN "continue" ELSE "False"

\* what try_reservation does with the answer to one POST
ReservationIteration(resp) ==
    CASE TryOutcome(resp, attempt) = "True" ->
           TryReturns("True") /\ BookingEnds(TRUE) /\ UNCHANGED <<cand, attempt>>
      [] TryOutcome(resp, attempt) = "False" -> NextCandidate /\ UNCHANGED attempt
      [] TryOutcome(resp, attempt) = "continue" ->
           /\ attempt' = (attempt + 1)
           /\ opc' = "try_retry"
           /\ UNCHANGED <<cand, result, message_queue, sent, tried>>

TryReq ==
    /\ opc = "try_req"
    /\ nposts' = (nposts + 1)
    /\ \E resp \in ReservationResponses : ReservationIteration(resp) /\ last_resp' = resp.kind
    /\ UNCHANGED calendar_primed
    /\ UNCHANGED <<now, stop_event, ui_vars, member_id, target_local, time_offset, sorted_times,
                   keeper_vars>>

\* a variant of TryRetry: the second iteration posts without reading the
\* signal
MutTryRetry ==
    /\ opc = "try_retry"
    /\ opc' = "try_req"
    /\ UNCHANGED <<cand, result, message_queue, sent, tried>>
    /\ UNCHANGED <<now, stop_event, ui_vars, member_id, target_local, time_offset, attempt,
                   sorted_times, nposts, keeper_vars>>
    /\ last_resp' = "none"
    /\ UNCHANGED calendar_primed

\* the head of the second iteration of try_reservation's loop, after the
\* sleep: `if self.stop_event.is_set(): return False`
TryRetry ==
    /\ opc = "try_retry"
    /\ IF stop_event
       THEN NextCandidate
       ELSE /\ opc' = "try_req"
            /\ UNCHANGED <<cand, result, message_queue, sent, tried>>
    /\ UNCHANGED <<now, stop_event, ui_vars, member_id, target_local, time_offset, attempt,
                   sorted_times, nposts, keeper_vars>>
    /\ last_resp' = "none"
    /\ UNCHANGED calendar_primed

-----------------------------------------------------------------------------
(* keep_session_alive *)

\* a variant of KeepAliveGet: a failed GET stops the run
MutKeepAliveGet(ok) ==
    /\ klast' = IF ok THEN "ok" ELSE "fail"
    /\ kstart' = now
    /\ kpc' = "interval"
    /\ stop_event' = (stop_event \/ ~ok)
    /\ UNCHANGED <<target_dt, orch_vars>>

\* the GET inside try/except Exception: both outcomes only log
KeepAliveGet(ok) ==
    /\ klast' = IF ok THEN "ok" ELSE "fail"
    /\ kstart' = now
    /\ kpc' = "interval"
    /\ UNCHANGED <<stop_event, target_dt, orch_vars>>

\* a variant of KeeperLoop: the keeper goes on until the signal is set
MutKeeperLoop ==
    /\ kpc = "loop"
    /\ IF stop_event
       THEN /\ kpc' = "done"
            /\ target_dt' = 0
            /\ kstart' = 0
            /\ klast' = "none"
            /\ UNCHANGED <<stop_event, orch_vars>>
       ELSE \E ok \in BOOLEAN : KeepAliveGet(ok)
    /\ UNCHANGED <<now, message_queue, ui_vars>>

\* `while not self.stop_event.is_set() and now < target_dt:` one GET
KeeperLoop ==
    /\ kpc = "loop"
    /\ IF stop_event \/ ~(now < target_dt)
       THEN /\ kpc' = "done"
            /\ target_dt' = 0
            /\ kstart' = 0
            /\ klast' = "none"
            /\ UNCHANGED <<stop_event, orch_vars>>
       ELSE \E ok \in BOOLEAN : KeepAliveGet(ok)
    /\ UNCHANGED <<now, message_queue, ui_vars>>

\* the inner wait loop ends: 60 s have passed, or the signal is set, or the
\* run instant is reached
KeeperInterval ==
    /\ kpc = "interval"
    /\ \/ ~(now - kstart < interval_seconds)
       \/ stop_event
       \/ now >= target_dt
    /\ kpc' = "loop"
    /\ UNCHANGED <<now, stop_event, message_queue, ui_vars, orch_vars, target_dt,
                   kstart, klast>>

-----------------------------------------------------------------------------
(* The Streamlit callbacks *)

\* the values of test_mode: the checkbox, or no such key (a caller of
\* start_pre_process other than run_booking)
TestModes == {"True", "False", Absent}

\* run_booking up to the start of the thread: the inputs are valid
run_booking ==
    /\ ~is_running
    /\ is_running' = TRUE
    /\ stop_event' = FALSE
    /\ message_queue' = <<>>

\* the first run is started
RunBooking ==
    /\ booking_thread = 0
    /\ run_booking
    /\ run_id' = 1
    /\ booking_thread' = 1
    /\ \E tm \in TestModes, run_dt \in RunTimes : inputs' = Inputs(tm, run_dt)
    /\ opc' = "login"
    /\ UNCHANGED <<now, member_id, target_local, time_offset, attempt, sorted_times, cand,
                   result, sent, tried, nposts, last_resp, calendar_primed,
                   keeper_vars, next_opc>>

\* the second run is started
RunBookingAgain ==
    /\ booking_thread = 1
    /\ run_booking
    /\ run_id' = 2
    /\ booking_thread' = 2
    /\ next_opc' = "alive"
    /\ UNCHANGED <<now, inputs, orch_vars, keeper_vars>>

\* the start_pre_process thread of the second run ends: `finally:`
\* stop_event.set()
NextRunExits ==
    /\ next_opc = "alive"
    /\ stop_event' = TRUE
    /\ next_opc' = "done"
    /\ UNCHANGED <<now, message_queue, is_running, run_id, booking_thread, inputs,
                   orch_vars, keeper_vars>>

\* stop_booking
StopBooking ==
    /\ is_running
    /\ stop_event' = TRUE
    /\ is_running' = FALSE
    /\ run_id' = 0
    /\ UNCHANGED <<now, message_queue, booking_thread, inputs, next_opc, orch_vars,
                   keeper_vars>>

\* the loop of check_queue_and_rerun over the queue: entries are taken up to
\* and including the first one that starts with UI_ERROR:
RECURSIVE DrainQueue(_)
DrainQueue(q) ==
    IF q = <<>> THEN [rest |-> <<>>, ui_error_occurred |-> FALSE]
    ELSE IF startswith(Head(q), "UI_ERROR:")
    THEN [rest |-> Tail(q), ui_error_occurred |-> TRUE]
    ELSE DrainQueue(Tail(q))

\* a variant of CheckQueue: an alert ends the run in the UI only
MutCheckQueue ==
    /\ run_id # 0
    /\ LET d == DrainQueue(message_queue)
           finished == /\ is_running
                       /\ ~d.ui_error_occurred
                       /\ booking_thread # 0
                       /\ ~booking_thread_is_alive
       IN  /\ message_queue' = d.rest
           /\ is_running' = IF d.ui_error_occurred \/ finished THEN FALSE ELSE is_running
           /\ stop_event' = stop_event
           /\ run_id' = IF d.ui_error_occurred \/ finished THEN 0 ELSE run_id
    /\ UNCHANGED <<now, booking_thread, inputs, next_opc, orch_vars, keeper_vars>>

\* check_queue_and_rerun
CheckQueue ==
    /\ run_id # 0
    /\ LET d == DrainQueue(message_queue)
           finished == /\ is_running
                       /\ ~d.ui_error_occurred
                       /\ booking_thread # 0
                       /\ ~booking_thread_is_alive
       IN  /\ message_queue' = d.rest
           /\ is_running' = IF d.ui_error_occurred \/ finished THEN FALSE ELSE is_running
           /\ stop_event' = IF d.ui_error_occurred THEN TRUE ELSE stop_event
           /\ run_id' = IF d.ui_error_occurred \/ finished THEN 0 ELSE run_id
    /\ UNCHANGED <<now, booking_thread, inputs, next_opc, orch_vars, keeper_vars>>

\* time passes
Tick ==
    /\ now < MaxClock
    /\ now' = now + 1
    /\ UNCHANGED <<stop_event, message_queue, ui_vars, orch_vars, keeper_vars>>

-----------------------------------------------------------------------------
(* The functions of the core examined on their own: get_all_available_times
   after the fetch, filter_and_sort_times, one iteration of try_reservation *)

\* the 6-tuple _fetch_tee_list builds
Slot(bk_time, bk_cos, bk_part, status_r) ==
    <<bk_time, bk_cos, bk_part, course_detail_mapping(bk_cos), CO_DIV, status_r>>

\* slots to draw the sequences from: equal keys with different status, equal
\* (time, course) with different sub-rounds, equal times on different
\* courses, times on and next to the ends of the window, a status that is
\* not 'OK', a course code the table does not know
SlotPool ==
    {Slot(<<"0", "7", "0", "0">>, "A", "1", "OK"),
     Slot(<<"0", "7", "0", "0">>, "A", "1", "X"),
     Slot(<<"0", "7", "0", "0">>, "A", "2", "OK"),
     Slot(<<"0", "7", "0", "0">>, "B", "2", "OK"),
     Slot(<<"0", "7", "3", "0">>, "C", "1", "OK"),
     Slot(<<"0", "7", "3", "0">>, "E", "1", "OK"),
     Slot(<<"0", "7", "3", "0">>, "B", "2", "N/A"),
     Slot(<<"0", "6", "5", "9">>, "A", "1", "OK"),
     Slot(<<"0", "9", "0", "0">>, "D", "2", "OK"),
     Slot(<<"0", "9", "0", "1">>, "A", "1", "OK")}

SlotSeqs == UNION {[1..n -> SlotPool] : n \in 0..MaxSlots}

\* start_time_str and end_time_str as the form gives them
Windows ==
    {<< <<"0", "7", ":", "0", "0">>, <<"0", "9", ":", "0", "0">> >>,
     << <<"0", "7", ":", "0", "0">>, <<"0", "7", ":", "3", "0">> >>}

\* target_course_names: the list run_booking builds for "All" and for one
\* course, and a list that holds "All" itself
CourseFilters == {<<"Yesul", "Munhwa">>, <<"Yesul">>, <<"All">>}

DedupCalls ==
    {[NoCall EXCEPT !.fn = "get_all_available_times", !.all_times = ts] :
        ts \in SlotSeqs}

FilterCalls ==
    {[NoCall EXCEPT !.fn = "filter_and_sort_times", !.all_times = ts, !.window = w,
                    !.target_course = f, !.is_reverse = r] :
        ts \in SlotSeqs, w \in Windows, f \in CourseFilters, r \in BOOLEAN}

ReservationCalls ==
    {[NoCall EXCEPT !.fn = "try_reservation", !.data = d, !.attempt = a] :
        d \in ReservationBodies, a \in 0..(RESERVE_MAX_RETRIES - 1)}

\* the longest time_str examined
MaxTimeLen == 5

\* the characters of the strings format_time_for_api is examined on: digits,
\* the colon, white space, a letter
TimeChars == {"0", "7", ":", " ", "x"}

TimeStrings == UNION {[1..n -> TimeChars] : n \in 0..MaxTimeLen}

FormatCalls ==
    {[NoCall EXCEPT !.fn = "format_time_for_api", !.time_str = t] :
        t \in TimeStrings}

LoginCalls ==
    {[NoCall EXCEPT !.fn = "requests_login", !.usrid = "user", !.login = resp] :
        resp \in LoginResponses}

FnInit ==
    /\ ProgramInit
    /\ call \in DedupCalls \cup FilterCalls \cup ReservationCalls \cup FormatCalls
               \cup LoginCalls
    /\ ret = <<>>
    /\ wait = NoWait
    /\ reserved = {}

\* get_all_available_times once _fetch_tee_list has returned all_times
DedupCall ==
    /\ call.fn = "get_all_available_times"
    /\ ret = <<>>
    /\ ret' = <<Dedup(call.all_times, {})>>
    /\ UNCHANGED <<call, wait, reserved, prog_vars>>

\* filter_and_sort_times, first on the slots of the call, then on what it
\* returned
FilterCall ==
    /\ call.fn = "filter_and_sort_times"
    /\ Len(ret) < 2
    /\ ret' = Append(ret, filter_and_sort_times(
                              IF ret = <<>> THEN call.all_times ELSE ret[1],
                              call.window[1], call.window[2],
                              call.target_course, call.is_reverse))
    /\ UNCHANGED <<call, wait, reserved, prog_vars>>

\* one iteration of try_reservation whose POST is answered with a JSON
\* object
ReservationCall ==
    /\ call.fn = "try_reservation"
    /\ ret = <<>>
    /\ ret' = <<TryOutcome([kind |-> "json", data |-> call.data], call.attempt)>>
    /\ UNCHANGED <<call, wait, reserved, prog_vars>>

\* format_time_for_api, first on the string of the call, then on what it
\* returned
FormatCall ==
    /\ call.fn = "format_time_for_api"
    /\ Len(ret) < 2
    /\ ret' = Append(ret, format_time_for_api(
                              IF ret = <<>> THEN call.time_str ELSE ret[1]))
    /\ UNCHANGED <<call, wait, reserved, prog_vars>>

\* requests_login on the core start_pre_process has just built
LoginCall ==
    /\ call.fn = "requests_login"
    /\ ret = <<>>
    /\ ret' = <<requests_login(member_id, call.usrid, call.login)>>
    /\ UNCHANGED <<call, wait, reserved, prog_vars>>

FnNext == DedupCall \/ FilterCall \/ ReservationCall \/ FormatCall \/ LoginCall

FnSpec == FnInit /\ [][FnNext]_vars

-----------------------------------------------------------------------------
(* wait_until on its own.  The program above counts time in ticks of 30 s,
   which hides the thresholds and the countdown of wait_until; here one call
   of it runs against a clock in milliseconds that never goes back, while
   other threads set and clear the Event it was given. *)

\* how many times the thread may be held up for a whole second in one call
MaxStalls == 1

\* log_remaining_start, in seconds
log_remaining_start == 30

Seconds(n) == n * 1000

\* target_dt_kst minus the clock at the call, in ms: deadlines that are
\* past, on and next to the 1 ms threshold, in each of the three sleep
\* ranges, and on and above the start of the countdown
Deadlines ==
    {0 - 1000, 0, 1, 2, 50, 150, 1050, 2250, Seconds(log_remaining_start),
     Seconds(log_remaining_start) + 1000}

\* what a sleep may take over its argument, in ms
Stalls == {0, 1000}

\* the line of line 95 and the line of line 106
CountdownLine(sec) == [kind |-> "countdown", sec |-> sec]

ReachedLine == [kind |-> "reached", sec |-> 0]

WaitingLine == [kind |-> "waiting", sec |-> 0]

WaitCalls ==
    {[NoWait EXCEPT !.pc = "enter", !.target_dt_kst = d, !.stop_event = e,
                    !.log_countdown = c] :
        d \in Deadlines, e \in BOOLEAN, c \in BOOLEAN}

WaitInit ==
    /\ ProgramInit
    /\ call = NoCall
    /\ ret = <<>>
    /\ wait \in WaitCalls
    /\ reserved = {}

\* lines 84-86
WaitEnter ==
    /\ wait.pc = "enter"
    /\ wait' = [wait EXCEPT !.pc = "loop", !.last_remaining_sec = -1,
                            !.lines = Append(@, WaitingLine)]
    /\ UNCHANGED <<call, ret, reserved, prog_vars>>

MutLoopRuns(w) == TRUE

\* the condition of the while of line 87
LoopRuns(w) == ~w.stop_event

MutDeadlinePassed(remaining) == remaining <= 0

\* line 90, remaining in ms
DeadlinePassed(remaining) == remaining <= 1

MutCountdownDue(w, remaining) ==
    /\ w.log_countdown
    /\ remaining <= Seconds(log_remaining_start)
    /\ remaining \div 1000 > 0

\* lines 92-94: int() cuts the fraction of a positive remaining time off
CountdownDue(w, remaining) ==
    /\ w.log_countdown
    /\ remaining <= Seconds(log_remaining_start)
    /\ remaining \div 1000 > 0
    /\ remaining \div 1000 # w.last_remaining_sec

\* lines 98-103: the argument of time.sleep, in ms
SleepFor(remaining) ==
    IF remaining < 100 THEN 1
    ELSE IF remaining < 1000 THEN 5
    ELSE 100

\* lines 87-103: one check of the while condition and, if the loop goes
\* on, one iteration with its sleep
WaitIteration ==
    /\ wait.pc = "loop"
    /\ LET remaining == wait.target_dt_kst - wait.now_kst
       IN IF ~LoopRuns(wait) \/ DeadlinePassed(remaining)
          THEN wait' = [wait EXCEPT !.pc = "after"]
          ELSE \E stall \in Stalls :
                  /\ stall > 0 => wait.stalls < MaxStalls
                  /\ wait' =
                       [wait EXCEPT
                          !.lines = IF CountdownDue(wait, remaining)
                                    THEN Append(@, CountdownLine(remaining \div 1000))
                                    ELSE @,
                          !.last_remaining_sec =
                                    IF CountdownDue(wait, remaining)
                                    THEN remaining \div 1000 ELSE @,
                          !.now_kst = @ + SleepFor(remaining) + stall,
                          !.stalls = IF stall > 0 THEN @ + 1 ELSE @,
                          !.slept = TRUE]
    /\ UNCHANGED <<call, ret, reserved, prog_vars>>

\* lines 104-106
WaitReturn ==
    /\ wait.pc = "after"
    /\ wait' = [wait EXCEPT !.pc = "done",
                            !.lines = IF ~wait.stop_event
                                      THEN Append(@, ReachedLine) ELSE @]
    /\ UNCHANGED <<call, ret, reserved, prog_vars>>

\* another thread sets the Event (lines 775, 836, 925) or clears it
\* (line 867) while the call is in progress
WaitSignal ==
    /\ wait.pc \in {"enter", "loop", "after"}
    /\ wait' = [wait EXCEPT !.stop_event = ~@]
    /\ UNCHANGED <<call, ret, reserved, prog_vars>>

WaitNext == WaitEnter \/ WaitIteration \/ WaitReturn \/ WaitSignal

WaitSpec == WaitInit /\ [][WaitNext]_vars

-----------------------------------------------------------------------------
(* The specification *)

OrchStep ==
    \/ Login \/ Launch \/ WaitSync \/ SyncCheck \/ Probe
    \/ Prime \/ PrimeCheck \/ WaitFinal \/ FinalCheck \/ FetchHead \/ FetchReq
    \/ Delay \/ Book \/ Cand \/ TryReq \/ TryRetry \/ Finally

KeeperStep == KeeperLoop \/ KeeperInterval

Next ==
    \/ RunBooking
    \/ RunBookingAgain
    \/ StopBooking
    \/ CheckQueue
    \/ Tick
    \/ OrchStep
    \/ Raise
    \/ KeeperStep
    \/ NextRunExits

Spec == Init /\ [][Next /\ UNCHANGED fn_vars]_vars

\* every thread that can take a step does so eventually, and time passes
FairSpec ==
    /\ Spec
    /\ WF_vars(Tick /\ UNCHANGED fn_vars)
    /\ WF_vars(OrchStep /\ UNCHANGED fn_vars)
    /\ WF_vars(KeeperStep /\ UNCHANGED fn_vars)
    /\ WF_vars(NextRunExits /\ UNCHANGED fn_vars)

\* the step is a doReservation POST of the thread and its answer
Posted == opc = "try_req" /\ nposts' = nposts + 1

\* what the server may hold after the POST for candidate i: a JSON answer
\* with a success marker says that it made the reservation, any other JSON
\* answer that it did not; after a timeout or a transport error the request
\* may have been processed or not
ServerAfterPost(kind, ok, i) ==
    CASE kind = "json" /\ ok = "True" -> {reserved \cup {i}}
      [] kind \in {"timeout", "net_error"} -> {reserved, reserved \cup {i}}
      [] OTHER -> {reserved}

\* a step of the program together with the server's book of reservations
ServedNext ==
    /\ Next
    /\ IF Posted
       THEN reserved' \in ServerAfterPost(last_resp', tried'[Len(tried')].ok, cand)
       ELSE reserved' = reserved

ServedSpec == Init /\ [][ServedNext /\ UNCHANGED <<call, ret, wait>>]_vars

\* and the script goes on calling check_queue_and_rerun: while is_running
\* and run_id are set each call ends in st.rerun() (lines 943-951)
UiFairSpec ==
    /\ FairSpec
    /\ WF_vars(CheckQueue /\ UNCHANGED fn_vars)

-----------------------------------------------------------------------------
(* Claims C1 - C10 *)

\* the run is a dry run: test_mode is true or the key is missing
DryRun == inputs.test_mode \in {"True", Absent}

\* run_api_booking has returned and start_pre_process has handled the result
BookingReturned == opc = "finally" /\ result \in {"success", "failed"}

\* C1: the getTeeList request is never started while the local clock is
\* before the corrected target instant, also when the signal is set and
\* cleared again while the orchestrator waits.
C1_FetchNotBeforeTarget ==
    opc \in {"fetch", "fetch_req"} => now >= target_local

\* C2: in a real run try_reservation is called for the candidates in the
\* order of the ranked list, for at most the first 5, for none after the
\* first call that returned success, and the run succeeds iff one of the
\* calls did.
C2_AttemptsInOrder ==
    inputs.test_mode = "False" =>
        /\ \A i \in DOMAIN tried : tried[i].cand = i
        /\ Len(tried) <= 5
        /\ Len(tried) <= Len(sorted_times)
        /\ \A i \in DOMAIN tried : i < Len(tried) => tried[i].ok = "False"
        /\ BookingReturned =>
              (result = "success" <=> \E i \in DOMAIN tried : tried[i].ok = "True")

\* a real run with more than 5 candidates tried 5 of them and failed
C2_Witness ==
    /\ inputs.test_mode = "False"
    /\ BookingReturned
    /\ result = "failed"
    /\ Len(sorted_times) > 5
    /\ Len(tried) = 5

\* C3: in a dry run (test_mode true or missing) no doReservation request is
\* sent and try_reservation is never called.
C3_DryRunSendsNoReservation ==
    DryRun => nposts = 0 /\ tried = <<>> /\ opc \notin {"cand", "try_req", "try_retry"}

\* a run without the test_mode key reached the booking step with candidates
C3_Witness ==
    /\ inputs.test_mode = Absent
    /\ BookingReturned
    /\ sorted_times # <<>>

\* C4: a dry run (the test_mode checkbox is on) that reaches the booking step
\* ends successfully for every candidate list, the empty one included, and
\* puts no alert on the sink.
C4_DryRunSucceeds ==
    inputs.test_mode = "True" /\ BookingReturned => result = "success" /\ Alerts = {}

\* the exit of start_pre_process leaves the signal set
ExitSetsSignal == opc # "done" /\ opc' = "done" => stop_event'

\* C5: every exit of start_pre_process sets the signal, and once the signal
\* is set the keeper thread eventually ends.
C5_ExitSetsSignalKeeperEnds ==
    /\ [][ExitSetsSignal]_vars
    /\ stop_event ~> ~keeper_alive

\* the orchestrator has ended after a successful booking, the signal is set
\* and the keeper it had started has ended
C5_Witness == opc = "done" /\ kpc = "done" /\ result = "success" /\ stop_event

\* C6: from the moment the signal is set until the orchestrator and the
\* keeper of the run have ended, no action clears it.
C6_SignalMonotonic ==
    [][stop_event /\ (is_alive \/ keeper_alive) => stop_event']_vars

\* a loop of the core starts an iteration that sends a request: a probe of
\* get_server_time_offset after the first one (the first follows the check
\* of the signal in start_pre_process), an attempt of _fetch_tee_list, an
\* attempt of try_reservation, a GET of the keeper
IterationStarts ==
    \/ opc = "probe" /\ attempt > 0 /\ (opc' = "prime" \/ attempt' = attempt + 1)
    \/ opc = "fetch" /\ opc' = "fetch_req"
    \/ opc # "try_req" /\ opc' = "try_req"
    \/ kpc = "loop" /\ kpc' = "interval"

\* C7: once the signal is set, no blocking or retry loop of the core starts
\* a further iteration or sends a further request.
C7_LoopsObserveSignal == [][stop_event => ~IterationStarts]_vars

\* C8: a run that ends because the login failed, because no usable slot was
\* fetched or because every attempted candidate failed puts exactly one
\* entry that starts with UI_ERROR: on the sink.
C8_OneAlertOnFailure ==
    opc = "finally" /\ result \in {"login_failed", "failed"} => Cardinality(Alerts) = 1

\* C9: an exception of the try block is handled in start_pre_process: one
\* alert is put on the sink and the thread ends with the signal set (it stays
\* set as long as no second run is started).
C9_ExceptionHandled ==
    result = "exception" =>
        /\ opc \in {"finally", "done"}
        /\ Cardinality(Alerts) = 1
        /\ opc = "done" /\ booking_thread = 1 => stop_event

\* an exception was raised after the login and the thread has ended
C9_Witness == result = "exception" /\ opc = "done" /\ member_id = "user"

\* the keeper's GET fails
KeepAliveFails == kpc = "loop" /\ kpc' # "loop" /\ klast' = "fail"

\* C10: a failed keep-alive GET does not end the keeper loop, sets no signal
\* and changes nothing of the orchestrator.
C10_KeepAliveFailureIsLocal ==
    [][KeepAliveFails => kpc' = "interval" /\ UNCHANGED <<stop_event, orch_vars>>]_vars

\* the run went on to a successful end after the keeper's last GET failed
C10_Witness == klast = "fail" /\ kpc = "interval" /\ BookingReturned /\ result = "success"

-----------------------------------------------------------------------------
(* Claims C11 - C20 *)

\* a step of the thread that sent a request of the given stage and got an
\* answer (the steps of the callbacks and of the keeper leave the variables
\* of the thread alone)
Answered(stage) == opc = stage /\ last_resp' # "none" /\ orch_vars' # orch_vars

\* the answer was a failed request or a response the loop cannot use
ProbeFailed == last_resp' \in {"no_date", "net_error"}

\* C11: get_server_time_offset sends at most 5 probes; when the fifth one
\* fails too (request error or no Date header) it returns 0 without raising,
\* and the target of the final wait is the run instant itself.
C11_ProbesBoundedZeroOffset ==
    [][Answered("probe") =>
          /\ attempt + 1 <= 5
          /\ ProbeFailed /\ attempt + 1 < 5 => opc' = "probe" /\ attempt' = attempt + 1
          /\ ProbeFailed /\ attempt + 1 = 5 =>
                /\ opc' = "prime"
                /\ result' = "none"
                /\ target_local' = inputs.run_dt]_vars

\* the fifth probe has failed and the thread goes on with offset 0
C11_Witness ==
    /\ opc = "prime"
    /\ last_resp \in {"no_date", "net_error"}
    /\ attempt = 4
    /\ target_local = inputs.run_dt

\* C12: prime_calendar returns True iff the getCalendar POST succeeded and
\* the body parses, False on every failure, and raises nothing; whatever it
\* returned, start_pre_process goes on to the final wait (or straight to the
\* fetch when the target is past) unless the signal is set.
C12_PrimeNeverAborts ==
    /\ \A resp \in CalendarResponses : prime_calendar(resp) <=> resp = "ok"
    /\ [][Answered("prime") =>
             /\ opc' = "prime_check"
             /\ result' = "none"
             /\ calendar_primed' <=> last_resp' = "ok"]_vars
    /\ [][opc = "prime_check" /\ opc' # "prime_check" /\ result' # "exception" =>
             IF stop_event
             THEN result' = "cancelled"
             ELSE /\ result' = "none"
                  /\ opc' = (IF now < target_local THEN "wait_final" ELSE "final_check")]_vars

\* the calendar request failed, prime_calendar returned False and the run
\* is not cancelled
C12_Witness ==
    /\ opc = "prime_check"
    /\ last_resp = "net_error"
    /\ ~calendar_primed
    /\ ~stop_event
    /\ now < target_local

\* the answer was a timeout, another network error or a body that is no
\* JSON
ReservationError == last_resp' \in {"timeout", "net_error", "bad_json"}

\* try_reservation has returned ok for the candidate it was called for
TryReturned(ok) == opc' # "try_retry" /\ tried'[Len(tried')].ok = ok

\* C13: for one candidate try_reservation sends at most 2 requests; an error
\* of the first request leads to one retry, an error of the second to
\* failure, and a well-formed response returns at once, with failure when it
\* is no success.
C13_ReservationRetries ==
    /\ [](nposts <= 2 * Len(tried))
    /\ [][Answered("try_req") =>
             /\ attempt + 1 <= 2
             /\ ReservationError /\ attempt = 0 =>
                   opc' = "try_retry" /\ attempt' = 1 /\ tried' = tried
             /\ ReservationError /\ attempt = 1 => TryReturned("False")
             /\ last_resp' = "json" => TryReturned("True") \/ TryReturned("False")
             /\ last_resp' = "json" /\ result' # "success" => TryReturned("False")]_vars
    /\ [][opc = "try_retry" /\ opc' = "try_req" => attempt = 1 /\ ~stop_event]_vars

\* the first request for the first candidate timed out, the retry timed out
\* too and try_reservation returned False
C13_Witness ==
    /\ opc = "cand"
    /\ last_resp = "timeout"
    /\ attempt = 1
    /\ nposts = 2
    /\ Len(tried) = 1
    /\ tried[1].ok = "False"

\* the answer was a RequestException or a body that is no JSON
FetchError == last_resp' \in {"net_error", "bad_json"}

\* _fetch_tee_list has returned the empty list: nothing is left to rank
FetchReturnedEmpty == opc' \in {"delay", "finally"} /\ sorted_times' = <<>>

\* C15: _fetch_tee_list sends at most 2 requests; a resultCode other than
\* '0000' returns the empty list at once, a network error or a body that is
\* no JSON is retried once, and when the second attempt fails too the result
\* is the empty list.
C15_FetchRetries ==
    [][Answered("fetch_req") =>
          /\ attempt + 1 <= 2
          /\ last_resp' = "api_error" => FetchReturnedEmpty
          /\ FetchError /\ attempt = 0 => opc' = "fetch" /\ attempt' = 1
          /\ FetchError /\ attempt = 1 => FetchReturnedEmpty]_vars

\* the first request failed on the network, the second was answered with
\* a resultCode other than '0000'
C15_Witness ==
    /\ opc = "delay"
    /\ last_resp = "api_error"
    /\ attempt = 1
    /\ sorted_times = <<>>

\* one iteration of try_reservation has been applied to a JSON object
ReservationApplied == call.fn = "try_reservation" /\ ret # <<>>

\* C14: for a well-formed response try_reservation returns success iff the
\* body carries one of the three markers (resultCode '0000', R 'OK', status
\* 'success'), in the first attempt and in the retry; status 'success' alone
\* is a success.
C14_SuccessIffMarker ==
    ReservationApplied =>
        /\ ret[1] \in {"True", "False"}
        /\ ret[1] = "True" <=>
              \/ call.data.resultCode = "0000"
              \/ call.data.R = "OK"
              \/ call.data.status = "success"

\* a body whose only marker is status 'success' was answered with True
C14_Witness ==
    /\ ReservationApplied
    /\ call.data = [resultCode |-> Absent, R |-> Absent, status |-> "success"]
    /\ ret = <<"True">>

\* the elements of a sequence
Range(seq) == {seq[i] : i \in DOMAIN seq}

\* how often x occurs in seq
Occurrences(seq, x) == Cardinality({i \in DOMAIN seq : seq[i] = x})

\* the key of a slot: time, course code, sub-round
SlotKey(t) == <<t[1], t[2], t[3]>>

\* the place of the first slot with the given key
FirstWithKey(seq, key) ==
    CHOOSE i \in DOMAIN seq :
        /\ SlotKey(seq[i]) = key
        /\ \A k \in 1..(i - 1) : SlotKey(seq[k]) # key

DedupApplied == call.fn = "get_all_available_times" /\ ret # <<>>

\* C16: the result of get_all_available_times holds one slot for every key
\* of the fetched sequence, that slot is the first one with the key, and the
\* kept slots are in the fetched order.
C16_DedupKeepsFirst ==
    DedupApplied =>
        LET fetched == call.all_times
            kept == ret[1]
        IN  /\ {SlotKey(t) : t \in Range(kept)} = {SlotKey(t) : t \in Range(fetched)}
            /\ \A i, j \in DOMAIN kept : SlotKey(kept[i]) = SlotKey(kept[j]) => i = j
            /\ \A i \in DOMAIN kept :
                   kept[i] = fetched[FirstWithKey(fetched, SlotKey(kept[i]))]
            /\ \A i, j \in DOMAIN kept :
                   i < j => FirstWithKey(fetched, SlotKey(kept[i]))
                              < FirstWithKey(fetched, SlotKey(kept[j]))

\* three fetched slots, the first and the last with one key and different
\* status: two are kept
C16_Witness ==
    /\ DedupApplied
    /\ Len(call.all_times) = 3
    /\ SlotKey(call.all_times[1]) = SlotKey(call.all_times[3])
    /\ call.all_times[1] # call.all_times[3]
    /\ SlotKey(call.all_times[1]) # SlotKey(call.all_times[2])
    /\ Len(ret[1]) = 2

\* the number a clock string stands for: its digits, ":" left out
RECURSIVE ClockValue(_, _)
ClockValue(str, acc) ==
    IF str = <<>> THEN acc
    ELSE IF Head(str) = ":" THEN ClockValue(Tail(str), acc)
    ELSE ClockValue(Tail(str), 10 * acc + (CharOrd(Head(str)) - 48))

\* the course filter selects the code: "All" selects every course, a course
\* name its two codes
Selects(names, cos) ==
    \/ "All" \in Range(names)
    \/ "Yesul" \in Range(names) /\ cos \in {"A", "B"}
    \/ "Munhwa" \in Range(names) /\ cos \in {"C", "D"}

\* the three conditions of the filter for a slot of the call
Wanted(t) ==
    /\ ClockValue(call.window[1], 0) <= ClockValue(t[1], 0)
    /\ ClockValue(t[1], 0) <= ClockValue(call.window[2], 0)
    /\ Selects(call.target_course, t[2])
    /\ t[6] = "OK"

FilterApplied == call.fn = "filter_and_sort_times" /\ ret # <<>>

\* C17: a slot is in the output of filter_and_sort_times iff it is in the
\* input, its time lies in [start, end], its course is selected and its
\* status is 'OK'; nothing is added and no such slot is dropped.
C17_FilterExact ==
    FilterApplied =>
        /\ Range(ret[1]) \subseteq Range(call.all_times)
        /\ \A t \in Range(call.all_times) :
               Occurrences(ret[1], t)
                 = IF Wanted(t) THEN Occurrences(call.all_times, t) ELSE 0

\* a slot on the end of the window is kept, one with another status and one
\* just past the window are dropped
C17_Witness ==
    /\ FilterApplied
    /\ Slot(<<"0", "7", "3", "0">>, "B", "2", "N/A") \in Range(call.all_times)
    /\ Slot(<<"0", "9", "0", "1">>, "A", "1", "OK") \in Range(call.all_times)
    /\ ret[1] = <<Slot(<<"0", "9", "0", "0">>, "D", "2", "OK")>>

\* C18: the output of filter_and_sort_times is non-decreasing in time when
\* the order is ascending and non-increasing when it is descending.
C18_SortedByTime ==
    FilterApplied =>
        \A i, j \in DOMAIN ret[1] :
            i < j =>
                IF call.is_reverse
                THEN ClockValue(ret[1][i][1], 0) >= ClockValue(ret[1][j][1], 0)
                ELSE ClockValue(ret[1][i][1], 0) <= ClockValue(ret[1][j][1], 0)

\* three slots given with the earliest first come out with the latest first
C18_Witness ==
    /\ FilterApplied
    /\ call.is_reverse
    /\ Len(ret[1]) = 3
    /\ ClockValue(call.all_times[1][1], 0) < ClockValue(call.all_times[3][1], 0)
    /\ ClockValue(ret[1][1][1], 0) > ClockValue(ret[1][3][1], 0)

\* C19: in the output of filter_and_sort_times slots with the same time are
\* in ascending order of the course code, in both directions.
C19_TiesByCourseAscending ==
    FilterApplied =>
        \A i, j \in DOMAIN ret[1] :
            i < j /\ ret[1][i][1] = ret[1][j][1] =>
                CharOrd(ret[1][i][2]) <= CharOrd(ret[1][j][2])

\* C20: filter_and_sort_times applied to its own output with the same
\* window, course filter and direction returns that output, element for
\* element.
C20_FilterIdempotent ==
    call.fn = "filter_and_sort_times" /\ Len(ret) = 2 => ret[2] = ret[1]

\* the output that was filtered again holds two different slots with one
\* (time, course code), in descending order
C20_Witness ==
    /\ call.fn = "filter_and_sort_times"
    /\ Len(ret) = 2
    /\ call.is_reverse
    /\ \E i, j \in DOMAIN ret[1] :
          /\ i < j
          /\ ret[1][i] # ret[1][j]
          /\ ret[1][i][1] = ret[1][j][1]
          /\ ret[1][i][2] = ret[1][j][2]


-----------------------------------------------------------------------------
(* Claims C21 - C30 *)

\* the time that remained when the call of wait_until began (its clock
\* starts at 0)
RemainingAtCall == wait.target_dt_kst

HasLine(kind) == \E i \in 1..Len(wait.lines) : wait.lines[i].kind = kind

\* C21: a call of wait_until whose deadline is already past, that is with
\* at most 1 ms remaining, returns without executing any sleep
C21_PastDeadlineNoSleep ==
    (wait.pc # "none" /\ RemainingAtCall <= 1) => ~wait.slept

C21_Witness ==
    /\ wait.pc = "done"
    /\ RemainingAtCall = 1
    /\ ~wait.slept
    /\ HasLine("reached")

\* a step of the thread that runs wait_until (the other threads change the
\* Event only)
WaitStep == wait' # wait /\ wait'.stop_event = wait.stop_event

\* C22: a loop check of wait_until that finds the signal set, be it the
\* first check of a call made with the signal set or the first one after
\* the signal was set during the wait, leaves the loop without sleeping and
\* whatever the deadline is, and a return with the signal set does not
\* report that the target time was reached
C22_SignalEndsWait ==
    [][/\ wait.pc = "loop" /\ wait.stop_event /\ WaitStep
          => /\ wait'.pc = "after"
             /\ wait'.now_kst = wait.now_kst
             /\ wait'.slept = wait.slept
             /\ wait'.lines = wait.lines
       /\ wait.pc = "after" /\ wait.stop_event /\ WaitStep
          => wait'.lines = wait.lines]_vars

C22_Witness ==
    /\ wait.pc = "done"
    /\ wait.stop_event
    /\ wait.slept
    /\ wait.now_kst < wait.target_dt_kst
    /\ ~HasLine("reached")

C22_WitnessPreset ==
    /\ wait.pc = "done"
    /\ wait.stop_event
    /\ ~wait.slept
    /\ RemainingAtCall > 1

\* the step appends a countdown line
CountdownEmitted ==
    /\ Len(wait'.lines) = Len(wait.lines) + 1
    /\ wait'.lines[Len(wait'.lines)].kind = "countdown"

\* C29: a countdown line is emitted only with log_countdown on, only while
\* the remaining time is at most 30 s and at least one whole second, and it
\* names a number of whole seconds that no earlier line of the call names;
\* a call with log_countdown off emits none
C29_CountdownLines ==
    [][CountdownEmitted =>
         LET remaining == wait.target_dt_kst - wait.now_kst
             sec == wait'.lines[Len(wait'.lines)].sec
         IN /\ wait.log_countdown
            /\ remaining <= Seconds(30)
            /\ remaining >= Seconds(1)
            /\ sec = remaining \div 1000
            /\ \A i \in 1..Len(wait.lines) :
                  wait.lines[i].kind = "countdown" => wait.lines[i].sec # sec]_vars

C29_Witness ==
    /\ wait.pc = "done"
    /\ wait.log_countdown
    /\ RemainingAtCall > Seconds(30)
    /\ \E i \in 1..Len(wait.lines) :
          wait.lines[i].kind = "countdown" /\ wait.lines[i].sec = 30
    /\ \E i \in 1..Len(wait.lines) :
          wait.lines[i].kind = "countdown" /\ wait.lines[i].sec = 1
    /\ HasLine("reached")


\* the positions of str between its first and its last character that is
\* not white space
Inner(str) ==
    {i \in 1..Len(str) :
        /\ \E j \in 1..i : str[j] # " "
        /\ \E k \in i..Len(str) : str[k] # " "}

\* apart from white space around it and colons, str is n digits
DigitsOnly(str, n) ==
    /\ \A i \in Inner(str) : str[i] \in Digits \cup {":"}
    /\ Cardinality({i \in Inner(str) : str[i] \in Digits}) = n

DigitsOf(str) == SelectSeq(str, LAMBDA c : c \in Digits)

FormatApplied == call.fn = "format_time_for_api" /\ ret # <<>>

\* C27: format_time_for_api returns four decimal digits for every string: the
\* digits of a 4-digit input, with or without colon, as they are, those of
\* a 3-digit input after one zero, and "0000" for every other input; and it
\* returns its own result unchanged
C27_FormatTotal ==
    FormatApplied =>
       LET inp == call.time_str
           out == ret[1]
       IN /\ Len(out) = 4
          /\ \A i \in 1..Len(out) : out[i] \in Digits
          /\ DigitsOnly(inp, 4) => out = DigitsOf(inp)
          /\ DigitsOnly(inp, 3) => out = <<"0">> \o DigitsOf(inp)
          /\ ~DigitsOnly(inp, 4) /\ ~DigitsOnly(inp, 3) => out = <<"0", "0", "0", "0">>
          /\ Len(ret) = 2 => ret[2] = out

C27_Witness ==
    /\ call.fn = "format_time_for_api"
    /\ call.time_str = <<"7", ":", "0", "0", " ">>
    /\ ret = << <<"0", "7", "0", "0">>, <<"0", "7", "0", "0">> >>


LoginApplied == call.fn = "requests_login" /\ ret # <<>>

\* the doLogin POST was sent and answered with a good status and a body
\* that holds the marker
DoLoginAccepted(login_result, resp) ==
    /\ \E i \in 1..Len(login_result.requests) : login_result.requests[i] = "doLogin"
    /\ resp.doLogin = "marker"

\* C23: requests_login returns success exactly when the doLogin POST
\* completes with a good status and the marker in its body; whatever the
\* two bootstrap GETs and the sessionConfirm POST meet, the result is the
\* same; and self.member_id is the user id exactly when the result is
\* success
C23_LoginResult ==
    LoginApplied =>
       /\ ret[1].result = "success" <=> DoLoginAccepted(ret[1], call.login)
       /\ \A a \in {"ok", "http_error", "net_error"} :
             /\ requests_login(member_id, call.usrid,
                               [call.login EXCEPT !.login_page = a]).result = ret[1].result
             /\ requests_login(member_id, call.usrid,
                               [call.login EXCEPT !.index_page = a]).result = ret[1].result
             /\ requests_login(member_id, call.usrid,
                               [call.login EXCEPT !.sessionConfirm = a]).result = ret[1].result
       /\ ret[1].member_id = call.usrid <=> ret[1].result = "success"

C23_Witness ==
    /\ LoginApplied
    /\ call.login.login_page = "net_error"
    /\ call.login.sessionConfirm = "net_error"
    /\ ret[1].result = "success"
    /\ ret[1].member_id = "user"
    /\ ret[1].requests = <<"login_page", "doLogin", "sessionConfirm">>


\* between the skew estimate and the end of the final wait
OffsetApplied == opc \in {"prime", "prime_check", "wait_final", "final_check"}

\* C26: the deadline of the final wait is the nominal run instant minus the
\* estimated offset, so it is earlier than the nominal instant for a
\* positive offset, later for a negative one and equal to it for offset 0;
\* the final wait ends at that deadline or at the signal
C26_DeadlineIsNominalMinusOffset ==
    /\ [](OffsetApplied =>
            /\ target_local = inputs.run_dt - time_offset
            /\ time_offset > 0 => target_local < inputs.run_dt
            /\ time_offset < 0 => target_local > inputs.run_dt
            /\ time_offset = 0 => target_local = inputs.run_dt)
    /\ [][opc = "wait_final" /\ opc' = "final_check" /\ ~stop_event
             => now >= inputs.run_dt - time_offset]_vars

C26_Witness ==
    /\ opc = "final_check"
    /\ ~stop_event
    /\ time_offset = 1
    /\ now = inputs.run_dt - 1

C26_WitnessLate ==
    /\ opc = "final_check"
    /\ ~stop_event
    /\ time_offset = 0 - 1
    /\ now = inputs.run_dt + 1


\* the stages of start_pre_process in the order of its text: 1 login,
\* 2 keeper launch, 3 wait to the sync instant, 4 skew estimate, 5 prime,
\* 6 final wait, 7 fetch with filter and rank, 8 delay, 9 attempts, 10 the
\* end of the run (the finally block), 11 ended
Stage(pc) ==
    CASE pc = "idle" -> 0
      [] pc = "login" -> 1
      [] pc = "launch" -> 2
      [] pc \in {"wait_sync", "sync_check"} -> 3
      [] pc = "probe" -> 4
      [] pc \in {"prime", "prime_check"} -> 5
      [] pc \in {"wait_final", "final_check"} -> 6
      [] pc \in {"fetch", "fetch_req"} -> 7
      [] pc = "delay" -> 8
      [] pc \in {"book", "cand", "try_req", "try_retry"} -> 9
      [] pc = "finally" -> 10
      [] pc = "done" -> 11

\* C24: the thread goes from a stage to the next one of the fixed order or
\* to the end of the run, never back to a stage and never into one twice;
\* a doReservation is sent in the attempts stage only, which is entered
\* from the delay stage after filter and rank; and a run that has ended
\* enters no stage again
C24_StagesForward ==
    [][/\ Stage(opc') # Stage(opc) =>
             \/ Stage(opc') = Stage(opc) + 1
             \/ Stage(opc') = Stage("finally")
       /\ nposts' > nposts => Stage(opc) = Stage("try_req")
       /\ opc = "done" => opc' = "done" /\ nposts' = nposts /\ sent' = sent]_vars

C24_Witness ==
    /\ opc = "done"
    /\ result = "failed"
    /\ inputs.test_mode = "False"
    /\ Len(sent) > 0
    /\ now > inputs.run_dt


\* C28: the keeper is started by the thread after requests_login returned
\* success, with the nominal run instant as its deadline; it sends a
\* keep-alive GET only from a loop check that finds the signal not set and
\* the clock before the nominal run instant; and once that instant is
\* reached it ends, the signal set or not
C28_KeeperLifetime ==
    /\ [][/\ ~keeper_alive /\ keeper_alive' =>
                /\ opc = "launch"
                /\ member_id = inputs.id
                /\ Len(sent) = 0
                /\ target_dt' = inputs.run_dt
          /\ kpc = "loop" /\ kpc' = "interval" =>
                ~stop_event /\ now < inputs.run_dt]_vars
    /\ (keeper_alive /\ now >= inputs.run_dt) ~> ~keeper_alive

C28_Witness ==
    /\ kpc = "done"
    /\ opc = "wait_final"
    /\ now >= inputs.run_dt
    /\ ~stop_event
    /\ is_running
    /\ next_opc = "idle"


\* C25: when the thread and the clock keep going, a run of start_pre_process
\* ends; on the way no loop goes beyond its bound: 5 skew probes, 2 fetch
\* attempts, 2 attempts for each of at most 5 candidates
C25_RunTerminates ==
    /\ [](/\ opc = "probe" => attempt < PROBE_MAX_RETRIES
          /\ opc \in {"fetch", "fetch_req"} => attempt < FETCH_MAX_RETRIES
          /\ opc \in {"try_req", "try_retry"} =>
                /\ attempt < RESERVE_MAX_RETRIES
                /\ cand <= TOP_N
          /\ nposts <= RESERVE_MAX_RETRIES * TOP_N)
    /\ is_alive ~> opc = "done"

C25_Witness ==
    /\ opc = "done"
    /\ result = "success"
    /\ inputs.test_mode = "False"
    /\ nposts = 0
    /\ now = inputs.run_dt


\* the step is a call of check_queue_and_rerun that takes an alert from the
\* queue
AlertConsumed ==
    /\ run_id # 0
    /\ DrainQueue(message_queue).ui_error_occurred
    /\ message_queue' # message_queue
    /\ message_queue' = DrainQueue(message_queue).rest

\* C30: a call of check_queue_and_rerun that takes an alert from the queue
\* marks the run not running, sets the signal and clears run_id; and when
\* the booking thread has ended, is_running becomes false
C30_UiStopsOnAlertAndExit ==
    /\ [][AlertConsumed => ~is_running' /\ stop_event' /\ run_id' = 0]_vars
    /\ (booking_thread # 0 /\ ~booking_thread_is_alive) ~> ~is_running

C30_Witness ==
    /\ booking_thread = 1
    /\ opc = "done"
    /\ Alerts # {}
    /\ message_queue = <<>>
    /\ ~is_running
    /\ run_id = 0
    /\ stop_event


-----------------------------------------------------------------------------
(* Claims C31 - C35 *)

\* C31: in one run the server makes at most one reservation, also when a
\* doReservation request timed out or failed in transport after the server
\* had processed it: the thread does not go on to book another candidate
C31_AtMostOneReservation == Cardinality(reserved) <= 1


\* the stages from the getCalendar request on
AfterSkew ==
    {"prime", "prime_check", "wait_final", "final_check", "fetch", "fetch_req",
     "delay", "book", "cand", "try_req", "try_retry"}

\* C32: a getCalendar, getTeeList or doReservation request is sent only by a
\* thread whose login succeeded, the payload of a doReservation names the
\* logged-in user, and a run whose login failed starts no keeper and sends
\* none of these requests
C32_RequestsNeedLogin ==
    /\ [](/\ opc \in AfterSkew => member_id = inputs.id /\ member_id \notin {"None", ""}
          /\ result = "login_failed" => kpc = "idle" /\ nposts = 0 /\ tried = <<>>)
    /\ [][/\ Answered("prime") \/ Answered("fetch_req") \/ Posted
             => member_id = inputs.id
          /\ Posted => payload.member_id = inputs.id /\ payload.member_id # ""
          /\ result = "login_failed" =>
                /\ ~(Answered("prime") \/ Answered("fetch_req") \/ Posted)
                /\ kpc' = "idle"]_vars

C32_Witness ==
    /\ opc = "cand"
    /\ nposts = 2
    /\ member_id = "user"
    /\ payload.member_id = "user"
    /\ kpc # "idle"

C32_WitnessLoginFailed ==
    /\ opc = "done"
    /\ result = "login_failed"
    /\ member_id = "None"
    /\ kpc = "idle"


\* a thread of the first run sends a request: the orchestrator (a skew probe,
\* getCalendar, getTeeList, doReservation) or its keeper (a keep-alive GET)
FirstRunRequests ==
    \/ last_resp' # "none" /\ orch_vars' # orch_vars
    \/ kpc = "loop" /\ kpc' = "interval"

\* C33: once the run was stopped and a new run started, the threads of the
\* stopped run send no request: while the thread of the new run is alive it
\* is the only orchestrator, and its keeper the only keeper, that works
C33_StoppedRunStaysStopped ==
    [][next_opc = "alive" => ~FirstRunRequests]_vars


\* the second run is the current one and its thread is alive
SecondRunLive == booking_thread = 2 /\ next_opc = "alive"

\* the step sets the signal or marks the run as not running
RunCancelled == (~stop_event /\ stop_event') \/ (is_running /\ ~is_running')

\* the step is stop_booking
OwnStop ==
    /\ is_running /\ ~is_running'
    /\ stop_event'
    /\ run_id' = 0
    /\ message_queue' = message_queue
    /\ orch_vars' = orch_vars

\* C34: a run is cancelled by its own stop request or by its own end only:
\* while the second run is live, neither the exit of the first run's thread
\* nor an alert the first run put on the queue sets the signal or marks the
\* run as stopped
C34_OnlyOwnCancel ==
    [][SecondRunLive /\ RunCancelled => OwnStop \/ next_opc' = "done"]_vars


\* the step's orchestrator read the signal as set
SignalSeen == stop_event /\ orch_vars' # orch_vars

\* the step ends the run as a success of a real booking
ReportsSuccess == result # "success" /\ result' = "success" /\ test_mode = "False"

C35_WitnessDelay ==
    /\ stop_event /\ ~is_running /\ booking_thread = 1
    /\ opc = "finally" /\ result = "cancelled"
    /\ sorted_times # <<>> /\ nposts = 0 /\ tried = <<>>

====
